---- MODULE Spec2Model ----
(***************************************************************************)
(* Model of pmca/usb/driver/libusb.py: the USB mass storage driver         *)
(* (MscDriver, Bulk-Only Transport with CBW / CSW framing and REQUEST      *)
(* SENSE) and the PTP/MTP driver (MtpDriver, Command / Data / Response     *)
(* packets with a per-instance transaction counter).                       *)
(*                                                                         *)
(* Every transport call (UsbDriver.read, UsbDriver.write, clear_halt) is   *)
(* one step.  What the device answers and whether a transfer raises        *)
(* usb.core.USBError is chosen nondeterministically.  Byte buffers are     *)
(* abstracted to their length and to the fields the drivers look at.       *)
(***************************************************************************)
EXTENDS Integers, Sequences, FiniteSets, TLC

\* ------------------------------------------------------------------------
\* Bounds of the exploration
\* ------------------------------------------------------------------------
MaxCalls == 3
MaxEmptyReads == 2
MaxDepth == 3

\* ------------------------------------------------------------------------
\* Program constants
\* ------------------------------------------------------------------------
MAX_PKG_LEN == 512
TYPE_COMMAND == 1
TYPE_DATA == 2
TYPE_RESPONSE == 3
PtpHeaderSize == 12
MSC_OC_REQUEST_SENSE == 3
DIRECTION_WRITE == 0
DIRECTION_READ == 128
RequestSenseSize == 18
CommandFieldLen == 16

Min(a, b) == IF a < b THEN a ELSE b
Max(a, b) == IF a > b THEN a ELSE b

VARIABLES
  \* ---- MtpDriver ----
  active,      \* the callers that use the MtpDriver instance
  attrs,       \* the instance attributes of the MtpDriver: no "transaction" until the first command
  ncalls,      \* number of PTP operations started so far
  pc,          \* per caller: position inside the running PTP operation
  call,        \* per caller: the running operation, its arguments and bookkeeping
  rd,          \* per caller: locals of _readPtp (bytes read so far, decoded header)
  rx,          \* per caller: the packets _readPtp returned during the running operation
  result,      \* per caller: outcome of the last finished operation
  wire,        \* per caller: the packets the running operation wrote to bulk-out, in order
  \* ---- MscDriver ----
  mscPc,       \* position inside the running MSC operation
  frames,      \* call stack of sendCommand / sendWriteCommand / sendReadCommand frames
  mscLog,      \* transport calls of the running top-level MSC operation, in order
  senseCalls,  \* requestSense() invocations during the running top-level operation
  mscResult    \* outcome of the last finished top-level MSC operation

mtpVars == <<active, attrs, ncalls, pc, call, rd, rx, result, wire>>
mscVars == <<mscPc, frames, mscLog, senseCalls, mscResult>>
vars == <<active, attrs, ncalls, pc, call, rd, rx, result, wire,
          mscPc, frames, mscLog, senseCalls, mscResult>>

\* ========================================================================
\* MtpDriver
\* ========================================================================
Callers == {1, 2}
MtpOps == {"sendCommand", "sendWriteCommand", "sendReadCommand"}
Codes == {4097, 8193}              \* 0x1001 (an operation code), 0x2001 (a response code)
ArgCounts == {0, 1}                \* number of 32-bit arguments of a command
WriteLens == {0, 4}                \* len(data) of sendWriteCommand
PacketTypes == {TYPE_COMMAND, TYPE_DATA, TYPE_RESPONSE}
HeaderSizes == {12, 16, 600}       \* values of the size field a device sends
FirstReadLens == {0, 4, 12, 16, 512} \* lengths the first read of a packet returns

\* overlapped: another caller's operation was in flight at some moment of this one
NoCall == [op |-> "none", code |-> 0, nargs |-> 0, dlen |-> 0, no |-> 0,
           assigned |-> 0, phase |-> "none", data |-> 0, overlapped |-> FALSE]
\* last: what became of the latest transport read of _readPtp; len: the number of
\* bytes the latest self.read(MAX_PKG_LEN) returned (-1: none, or it raised);
\* empties: the zero-length reads of the current (or, when last = "packet", the
\* just finished) _readPtp
NoRead == [got |-> 0, size |-> 0, type |-> 0, code |-> 0, transaction |-> 0,
           last |-> "none", len |-> -1, empties |-> 0]
NoResult == [status |-> "none", err |-> "none", code |-> 0, data |-> 0, hasData |-> FALSE]

HasTransaction == "transaction" \in DOMAIN attrs

\* a counter that is never advanced
NextTransactionStuck == IF HasTransaction THEN attrs.transaction ELSE 0

\* a counter that advances by two
NextTransactionByTwo == IF HasTransaction THEN attrs.transaction + 2 ELSE 0

\* a counter whose first value is 1
NextTransactionFromOne == IF HasTransaction THEN attrs.transaction + 1 ELSE 1

\* self.transaction += 1, or self.transaction = 0 when the attribute is missing
NextTransaction == IF HasTransaction THEN attrs.transaction + 1 ELSE 0

\* PtpHeader.pack(size = PtpHeader.size + len(data), type, code, transaction) + data
PtpPacket(type, code, transaction, dlen) ==
  [size |-> PtpHeaderSize + dlen, type |-> type, code |-> code, transaction |-> transaction]

\* data[PtpHeader.size:PtpHeader.size+header.size], as a number of bytes
PayloadLen(total, size) == Min(Max(total - PtpHeaderSize, 0), size)

\* a _readData without its type check
ReadDataAcceptsAll(type) == FALSE

\* _readData: raise unless type == TYPE_DATA
ReadDataRejects(type) == type # TYPE_DATA

\* _readResponse: raise unless type == TYPE_RESPONSE
ReadResponseRejects(type) == type # TYPE_RESPONSE

\* a _readResponse that returns the wrong field of the tuple
ResponseValueType(type, code, transaction) == type

\* the value _readResponse returns
ResponseValue(type, code, transaction) == code

Raise(c, err) ==
  /\ pc' = [pc EXCEPT ![c] = "idle"]
  /\ result' = [result EXCEPT ![c] = [NoResult EXCEPT !.status = "raised", !.err = err]]

\* _writeInitialCommand, first half: the counter update at the start of an operation
MtpCall(c, o, code, nargs, dlen) ==
  /\ c \in active
  /\ pc[c] = "idle"
  /\ ncalls < MaxCalls
  /\ attrs' = [transaction |-> NextTransaction]
  /\ ncalls' = ncalls + 1
  /\ call' = [d \in Callers |->
        IF d = c
          THEN [NoCall EXCEPT !.op = o, !.code = code, !.nargs = nargs,
                              !.dlen = IF o = "sendWriteCommand" THEN dlen ELSE 0,
                              !.no = ncalls + 1,
                              !.assigned = NextTransaction,
                              !.overlapped = \E e \in Callers \ {c} : pc[e] # "idle"]
          ELSE IF pc[d] # "idle" THEN [call[d] EXCEPT !.overlapped = TRUE] ELSE call[d]]
  /\ pc' = [pc EXCEPT ![c] = "writeCommand"]
  /\ rd' = [rd EXCEPT ![c] = NoRead]
  /\ rx' = [rx EXCEPT ![c] = <<>>]
  /\ result' = [result EXCEPT ![c] = NoResult]
  /\ wire' = [wire EXCEPT ![c] = << >>]
  /\ UNCHANGED active

\* _writeInitialCommand, second half: _writePtp(TYPE_COMMAND, code, self.transaction, args)
MtpWriteCommand(c, ok) ==
  /\ pc[c] = "writeCommand"
  /\ wire' = [wire EXCEPT ![c] =
        Append(@, [pkt |-> PtpPacket(TYPE_COMMAND, call[c].code, attrs.transaction, 4 * call[c].nargs),
                   ok |-> ok])]
  /\ IF ok
       THEN /\ pc' = [pc EXCEPT ![c] = IF call[c].op = "sendWriteCommand" THEN "writeData" ELSE "readPtp"]
            /\ call' = [call EXCEPT ![c].phase = IF call[c].op = "sendReadCommand" THEN "data" ELSE "response"]
            /\ UNCHANGED result
       ELSE /\ Raise(c, "transport")
            /\ UNCHANGED call
  /\ UNCHANGED <<active, attrs, ncalls, rd, rx>>

\* sendWriteCommand: _writePtp(TYPE_DATA, code, self.transaction, data)
MtpWriteData(c, ok) ==
  /\ pc[c] = "writeData"
  /\ wire' = [wire EXCEPT ![c] =
        Append(@, [pkt |-> PtpPacket(TYPE_DATA, call[c].code, attrs.transaction, call[c].dlen),
                   ok |-> ok])]
  /\ IF ok
       THEN /\ pc' = [pc EXCEPT ![c] = "readPtp"]
            /\ UNCHANGED result
       ELSE Raise(c, "transport")
  /\ UNCHANGED <<active, attrs, ncalls, call, rd, rx>>

\* zero-length reads the current _readPtp has seen
EmptyReads(c) == IF rd[c].last = "packet" THEN 0 ELSE rd[c].empties

\* The end of _readPtp and the check of its caller (_readData or _readResponse):
\* h is the decoded header, total the number of bytes read for the packet.
MtpPacketRead(c, h, first, total) ==
  LET payload == PayloadLen(total, h.size)
      entry == [phase |-> call[c].phase, type |-> h.type, code |-> h.code,
                transaction |-> h.transaction, size |-> h.size, payload |-> payload]
  IN /\ rx' = [rx EXCEPT ![c] = Append(@, entry)]
     /\ rd' = [rd EXCEPT ![c] = [NoRead EXCEPT !.last = "packet", !.len = first,
                                                  !.empties = EmptyReads(c)]]
     /\ IF call[c].phase = "data"
          THEN IF ReadDataRejects(h.type)
                 THEN /\ Raise(c, "protocol")
                      /\ UNCHANGED call
                 ELSE /\ call' = [call EXCEPT ![c].phase = "response", ![c].data = payload]
                      /\ pc' = [pc EXCEPT ![c] = "readPtp"]
                      /\ UNCHANGED result
          ELSE IF ReadResponseRejects(h.type)
                 THEN /\ Raise(c, "protocol")
                      /\ UNCHANGED call
                 ELSE /\ pc' = [pc EXCEPT ![c] = "idle"]
                      /\ result' = [result EXCEPT ![c] =
                            [status |-> "returned", err |-> "none",
                             code |-> ResponseValue(h.type, h.code, h.transaction),
                             data |-> call[c].data,
                             hasData |-> call[c].op = "sendReadCommand"]]
                      /\ UNCHANGED call

\* a _readPtp that does not read again
ReadLoopGivesUp(len) == FALSE

\* while data == b'': the loop reads again
ReadLoopContinues(len) == len = 0

\* _readPtp, one turn of "while data == b'': data = self.read(self.MAX_PKG_LEN)"
\* followed by PtpHeader.unpack(data) once data is not empty
MtpRead(c, ok, len, h) ==
  /\ pc[c] = "readPtp"
  /\ len <= MAX_PKG_LEN
  /\ IF ~ok
       THEN /\ Raise(c, "transport")
            /\ rd' = [rd EXCEPT ![c] = [NoRead EXCEPT !.last = "error", !.empties = EmptyReads(c)]]
            /\ UNCHANGED <<call, rx>>
       ELSE IF ReadLoopContinues(len)
         THEN /\ EmptyReads(c) < MaxEmptyReads
              /\ rd' = [rd EXCEPT ![c] = [NoRead EXCEPT !.last = "empty", !.len = len,
                                                        !.empties = EmptyReads(c) + 1]]
              /\ UNCHANGED <<pc, result, call, rx>>
         ELSE IF len < PtpHeaderSize
           THEN /\ Raise(c, "format")
                /\ rd' = [rd EXCEPT ![c] = [NoRead EXCEPT !.last = "short", !.len = len,
                                                          !.empties = EmptyReads(c)]]
                /\ UNCHANGED <<call, rx>>
           ELSE IF h.size > MAX_PKG_LEN
             THEN /\ rd' = [rd EXCEPT ![c] = [got |-> len, size |-> h.size, type |-> h.type,
                                              code |-> h.code, transaction |-> h.transaction,
                                              last |-> "header", len |-> len,
                                              empties |-> EmptyReads(c)]]
                  /\ pc' = [pc EXCEPT ![c] = "readMore"]
                  /\ UNCHANGED <<call, result, rx>>
             ELSE MtpPacketRead(c, h, len, len)
  /\ UNCHANGED <<active, attrs, ncalls, wire>>

\* _readPtp: data += self.read(header.size - self.MAX_PKG_LEN)
MtpReadMore(c, ok, len) ==
  /\ pc[c] = "readMore"
  /\ len <= rd[c].size - MAX_PKG_LEN
  /\ IF ~ok
       THEN /\ Raise(c, "transport")
            /\ rd' = [rd EXCEPT ![c] = [NoRead EXCEPT !.last = "error", !.empties = EmptyReads(c)]]
            /\ UNCHANGED <<call, rx>>
       ELSE MtpPacketRead(c, rd[c], rd[c].got, rd[c].got + len)
  /\ UNCHANGED <<active, attrs, ncalls, wire>>

Headers == [size : HeaderSizes, type : PacketTypes, code : Codes, transaction : 0 .. 1]
\* <<bytes returned by the first read, size field of the header they start with>>:
\* a header-only packet, a packet with a 4-byte payload, a read that holds more
\* than the packet, and a packet of 600 bytes whose first read is short or full
ReadShapes == {<<12, 12>>, <<16, 16>>, <<512, 16>>, <<16, 600>>, <<512, 600>>}
MoreReadLens == {0, 88}           \* lengths the follow-up read of a large packet returns

MtpInit ==
  /\ attrs = << >>
  /\ ncalls = 0
  /\ pc = [c \in Callers |-> "idle"]
  /\ call = [c \in Callers |-> NoCall]
  /\ rd = [c \in Callers |-> NoRead]
  /\ rx = [c \in Callers |-> << >>]
  /\ result = [c \in Callers |-> NoResult]
  /\ wire = [c \in Callers |-> << >>]

MscIdle ==
  /\ mscPc = "idle"
  /\ frames = << >>
  /\ mscLog = << >>
  /\ senseCalls = 0
  /\ mscResult = [status |-> "none", err |-> "none", sense |-> <<0, 0, 0>>,
                  data |-> [len |-> -1, key |-> 0, asc |-> 0, ascq |-> 0], hasData |-> FALSE]

InitMtp ==
  /\ active = {1}
  /\ MtpInit
  /\ MscIdle

NextMtp ==
  \/ \E c \in Callers, o \in MtpOps, code \in Codes, nargs \in ArgCounts, dlen \in WriteLens :
        MtpCall(c, o, code, nargs, dlen) /\ UNCHANGED mscVars
  \/ \E c \in Callers, ok \in BOOLEAN : MtpWriteCommand(c, ok) /\ UNCHANGED mscVars
  \/ \E c \in Callers, ok \in BOOLEAN : MtpWriteData(c, ok) /\ UNCHANGED mscVars
  \/ \E c \in Callers, ok \in BOOLEAN, len \in FirstReadLens, h \in Headers :
        /\ (len >= PtpHeaderSize => <<len, h.size>> \in ReadShapes)
        /\ MtpRead(c, ok, len, h)
        /\ UNCHANGED mscVars
  \/ \E c \in Callers, ok \in BOOLEAN, len \in MoreReadLens :
        MtpReadMore(c, ok, len) /\ UNCHANGED mscVars

SpecMtp == InitMtp /\ [][NextMtp]_vars

\* Two callers share one MtpDriver instance and nothing serializes them: the
\* steps of their operations interleave at every transport call.  The device
\* answers every read with one well-formed 16-byte Data or Response packet.
TwoCallerHeaders == [size : {16}, type : {TYPE_DATA, TYPE_RESPONSE}, code : {8193}, transaction : {0}]

InitMtpTwo ==
  /\ active = Callers
  /\ MtpInit
  /\ MscIdle

NextMtpTwo ==
  \/ \E c \in Callers, o \in MtpOps :
        MtpCall(c, o, 4097, 1, 4) /\ UNCHANGED mscVars
  \/ \E c \in Callers, ok \in BOOLEAN : MtpWriteCommand(c, ok) /\ UNCHANGED mscVars
  \/ \E c \in Callers, ok \in BOOLEAN : MtpWriteData(c, ok) /\ UNCHANGED mscVars
  \/ \E c \in Callers, h \in TwoCallerHeaders :
        MtpRead(c, TRUE, 16, h) /\ UNCHANGED mscVars

SpecMtpTwo == InitMtpTwo /\ [][NextMtpTwo]_vars

\* ========================================================================
\* MscDriver
\* ========================================================================
MscOps == {"sendCommand", "sendWriteCommand", "sendReadCommand"}
TestUnitReadyCommand == <<0, 0, 0, 0, 0, 0>>
\* dump8(self.MSC_OC_REQUEST_SENSE) + 3*b'\0' + dump8(size) + b'\0'
RequestSenseCommand == <<MSC_OC_REQUEST_SENSE, 0, 0, 0, RequestSenseSize, 0>>
MscCommands == {TestUnitReadyCommand, RequestSenseCommand}
TransferSizes == {RequestSenseSize}      \* size of sendReadCommand, len(data) of sendWriteCommand
UsbErrors == {"stall", "timeout"}        \* both are raised as usb.core.USBError
TransferResults == {"ok"} \cup UsbErrors
Signatures == {"USBS", "XXXX"}
Statuses == {0, 1, 2}

\* A buffer read from bulk-in: its length and its bytes 2, 12 and 13 (the sense
\* key, the additional sense code and its qualifier of a REQUEST SENSE answer).
NoData == [len |-> -1, key |-> 0, asc |-> 0, ascq |-> 0]
ShortData == [len |-> 0, key |-> 0, asc |-> 0, ascq |-> 0]
Buffers == [len : {RequestSenseSize}, key : {0, 5}, asc : {0, 36}, ascq : {0}] \cup {ShortData}

MSC_SENSE_OK == <<0, 0, 0>>
parseMscSense(buffer) == <<buffer.key % 16, buffer.asc, buffer.ascq>>
SenseParsable(buffer) == buffer.len >= RequestSenseSize

Ljust(command, n) == command \o [i \in 1 .. (n - Len(command)) |-> 0]

\* MscCommandBlockWrapper.pack(...) in _writeCommand
MscCBW(direction, command, dataSize) ==
  [signature |-> "USBC", tag |-> 0, dataTransferLength |-> dataSize, flags |-> direction,
   lun |-> 0, commandLength |-> Len(command), command |-> Ljust(command, CommandFieldLen)]

NoCBW == [signature |-> "", tag |-> 0, dataTransferLength |-> 0, flags |-> 0,
          lun |-> 0, commandLength |-> 0, command |-> << >>]
NoCSW == [signature |-> "", status |-> 0]
CSWs == [signature : Signatures, status : Statuses]

\* one transport call of the log
LogEntry(what, ep, item, res) ==
  [call |-> what, ep |-> ep, item |-> item, res |-> res, depth |-> Len(frames),
   op |-> frames[Len(frames)].op, failOnError |-> frames[Len(frames)].failOnError, cbw |-> NoCBW, csw |-> NoCSW, buf |-> NoData,
   outcome |-> "none"]

Frame(o, command, n, failOnError) ==
  [op |-> o, command |-> command, size |-> n, failOnError |-> failOnError,
   stalled |-> FALSE, data |-> NoData]

Top == frames[Len(frames)]
SetTop(f) == [frames EXCEPT ![Len(frames)] = f]

MscDirection(o) == IF o = "sendReadCommand" THEN DIRECTION_READ ELSE DIRECTION_WRITE
MscDataSize(f) == IF f.op = "sendCommand" THEN 0 ELSE f.size

\* a requestSense that leaves failOnError at its default
RequestSenseLenient == FALSE

\* the failOnError argument of the sendReadCommand call in requestSense
RequestSenseFailOnError == TRUE

\* a stall recovery that always clears the bulk-out endpoint
HaltAlwaysOut(o) == "out"

\* the endpoint whose halt is cleared: self.epOut in sendWriteCommand, self.epIn in sendReadCommand
HaltEndpoint(o) == IF o = "sendWriteCommand" THEN "out" ELSE "in"

\* an operation that goes from the CBW straight to the status phase
MscSkipDataPhase(o) == "status"

\* what follows _writeCommand: sendCommand goes on to _readResponse, the other two
\* operations to their data phase
MscAfterCommand(o) == IF o = "sendCommand" THEN "status" ELSE "data"

\* a _readResponse that ignores failOnError
FailOnErrorIgnored(failOnError) == FALSE

\* _readResponse: if failOnError: raise Exception('Mass storage error')
FailOnErrorRaises(failOnError) == failOnError

\* a _readResponse without the signature check
SignatureUnchecked(csw) == FALSE

\* _readResponse: response.signature != b'USBS'
WrongSignature(csw) == csw.signature # "USBS"

\* a _readResponse that takes status 1 for success
StatusFailedAboveOne(csw) == csw.status > 1

\* _readResponse: response.status != 0
StatusFailed(csw) == csw.status # 0

\* an operation that forgets the stall
StallIgnored(stalled, sense) == FALSE

\* sendWriteCommand / sendReadCommand: stalled and sense == MSC_SENSE_OK
StallInconsistent(stalled, sense) == stalled /\ sense = MSC_SENSE_OK

\* _readResponse after the CSW is unpacked: "protocol" and "device" are the two
\* exceptions, "sense" is return self.requestSense(), "ok" is return MSC_SENSE_OK
CswOutcome(csw, failOnError) ==
  IF WrongSignature(csw) THEN "protocol"
  ELSE IF StatusFailed(csw)
    THEN IF FailOnErrorRaises(failOnError) THEN "device" ELSE "sense"
    ELSE "ok"

MscRaised(err) == [status |-> "raised", err |-> err, sense |-> MSC_SENSE_OK, data |-> NoData, hasData |-> FALSE]
MscReturned(sense, f) ==
  [status |-> "returned", err |-> "none", sense |-> sense,
   data |-> IF f.op = "sendReadCommand" THEN f.data ELSE NoData,
   hasData |-> f.op = "sendReadCommand"]
MscNoResult == [status |-> "none", err |-> "none", sense |-> MSC_SENSE_OK, data |-> NoData, hasData |-> FALSE]

\* What the top-level operation gives its caller once _readResponse of the
\* innermost frame has produced sense: the end of sendCommand / sendWriteCommand /
\* sendReadCommand, and for a frame called by requestSense the return into
\* requestSense (parseMscSense) and into the _readResponse that called it.
RECURSIVE MscComplete(_, _)
MscComplete(fs, sense) ==
  LET f == fs[Len(fs)]
  IN IF f.op # "sendCommand" /\ StallInconsistent(f.stalled, sense)
       THEN MscRaised("stall")
       ELSE IF Len(fs) = 1
         THEN MscReturned(sense, f)
         ELSE IF ~SenseParsable(f.data)
           THEN MscRaised("format")
           ELSE MscComplete(SubSeq(fs, 1, Len(fs) - 1), parseMscSense(f.data))

MscFinish(res) ==
  /\ mscResult' = res
  /\ mscPc' = "idle"
  /\ frames' = << >>

\* a caller invokes sendCommand, sendWriteCommand or sendReadCommand
MscCall(o, command, n, failOnError) ==
  /\ mscPc = "idle"
  /\ frames' = <<Frame(o, command, IF o = "sendCommand" THEN 0 ELSE n, failOnError)>>
  /\ mscPc' = "cbw"
  /\ mscLog' = << >>
  /\ senseCalls' = 0
  /\ mscResult' = MscNoResult

\* _writeCommand: self.write(MscCommandBlockWrapper.pack(...))
MscWriteCommand(res) ==
  /\ mscPc = "cbw"
  /\ mscLog' = Append(mscLog, [LogEntry("write", "out", "CBW", res) EXCEPT
                                 !.cbw = MscCBW(MscDirection(Top.op), Top.command, MscDataSize(Top))])
  /\ IF res = "ok"
       THEN /\ mscPc' = MscAfterCommand(Top.op)
            /\ UNCHANGED <<frames, mscResult>>
       ELSE MscFinish(MscRaised("transport"))
  /\ UNCHANGED senseCalls

\* sendWriteCommand: self.write(data), except usb.core.USBError: stalled = True
MscWriteData(res) ==
  /\ mscPc = "data"
  /\ Top.op = "sendWriteCommand"
  /\ mscLog' = Append(mscLog, LogEntry("write", "out", "DATA", res))
  /\ IF res = "ok"
       THEN /\ mscPc' = "status"
            /\ UNCHANGED frames
       ELSE /\ mscPc' = "clearHalt"
            /\ frames' = SetTop([Top EXCEPT !.stalled = TRUE])
  /\ UNCHANGED <<senseCalls, mscResult>>

\* sendReadCommand: data = self.read(size), except usb.core.USBError: stalled = True
MscReadData(res, buf) ==
  /\ mscPc = "data"
  /\ Top.op = "sendReadCommand"
  /\ buf.len <= Top.size
  /\ IF res = "ok"
       THEN /\ mscLog' = Append(mscLog, [LogEntry("read", "in", "DATA", res) EXCEPT !.buf = buf])
            /\ mscPc' = "status"
            /\ frames' = SetTop([Top EXCEPT !.data = buf])
       ELSE /\ mscLog' = Append(mscLog, LogEntry("read", "in", "DATA", res))
            /\ mscPc' = "clearHalt"
            /\ frames' = SetTop([Top EXCEPT !.stalled = TRUE])
  /\ UNCHANGED <<senseCalls, mscResult>>

\* self.dev.clear_halt(self.epOut) in sendWriteCommand, clear_halt(self.epIn) in sendReadCommand
MscClearHalt(res) ==
  /\ mscPc = "clearHalt"
  /\ mscLog' = Append(mscLog, LogEntry("clear_halt", HaltEndpoint(Top.op), "HALT", res))
  /\ IF res = "ok"
       THEN /\ mscPc' = "status"
            /\ UNCHANGED <<frames, mscResult>>
       ELSE MscFinish(MscRaised("transport"))
  /\ UNCHANGED senseCalls

\* _readResponse: the CSW read, the interpretation of the CSW and, when the
\* status phase ends the operation, the rest of the callers up to the top level
MscReadResponse(res, short, csw) ==
  /\ mscPc = "status"
  /\ IF res # "ok"
       THEN /\ mscLog' = Append(mscLog, LogEntry("read", "in", "CSW", res))
            /\ MscFinish(MscRaised("transport"))
            /\ UNCHANGED senseCalls
       ELSE IF short
         THEN /\ mscLog' = Append(mscLog, LogEntry("read", "in", "CSW", "short"))
              /\ MscFinish(MscRaised("format"))
              /\ UNCHANGED senseCalls
         ELSE LET outcome == CswOutcome(csw, Top.failOnError)
              IN /\ mscLog' = Append(mscLog, [LogEntry("read", "in", "CSW", res) EXCEPT
                                                !.csw = csw, !.outcome = outcome])
                 /\ IF outcome = "sense"
                      THEN \* return self.requestSense()
                           /\ Len(frames) < MaxDepth
                           /\ senseCalls' = senseCalls + 1
                           /\ frames' = Append(frames, Frame("sendReadCommand", RequestSenseCommand,
                                                             RequestSenseSize, RequestSenseFailOnError))
                           /\ mscPc' = "cbw"
                           /\ UNCHANGED mscResult
                      ELSE /\ MscFinish(IF outcome = "ok"
                                          THEN MscComplete(frames, MSC_SENSE_OK)
                                          ELSE MscRaised(outcome))
                           /\ UNCHANGED senseCalls

InitMsc ==
  /\ active = {}
  /\ MtpInit
  /\ MscIdle

NextMsc ==
  \/ \E o \in MscOps, command \in MscCommands, n \in TransferSizes, failOnError \in BOOLEAN :
        MscCall(o, command, n, failOnError) /\ UNCHANGED mtpVars
  \/ \E res \in TransferResults : MscWriteCommand(res) /\ UNCHANGED mtpVars
  \/ \E res \in TransferResults : MscWriteData(res) /\ UNCHANGED mtpVars
  \/ \E res \in TransferResults, buf \in Buffers : MscReadData(res, buf) /\ UNCHANGED mtpVars
  \/ \E res \in TransferResults : MscClearHalt(res) /\ UNCHANGED mtpVars
  \/ \E res \in TransferResults, short \in BOOLEAN, csw \in CSWs :
        MscReadResponse(res, short, csw) /\ UNCHANGED mtpVars

SpecMsc == InitMsc /\ [][NextMsc]_vars

\* ========================================================================
\* Properties of MtpDriver (checked under SpecMtp: one caller)
\* ========================================================================
LastRx(c) == rx[c][Len(rx[c])]
ExpectedType(phase) == IF phase = "data" THEN TYPE_DATA ELSE TYPE_RESPONSE
FirstSendCommandAnswered(c) ==
  /\ ncalls = 1
  /\ call[c].no = 1
  /\ call[c].op = "sendCommand"
  /\ result[c].status = "returned"

\* C1: on a fresh driver the Command packet written by the n-th operation
\* (sendCommand, sendWriteCommand or sendReadCommand, in any mix) carries
\* transaction id n - 1, and it is the first packet the operation writes.
C1_NthCommandCarriesNMinusOne ==
  \A c \in Callers :
    /\ \A i \in 1 .. Len(wire[c]) :
         wire[c][i].pkt.type = TYPE_COMMAND =>
           /\ i = 1
           /\ wire[c][i].pkt.transaction = call[c].no - 1
    /\ (call[c].op # "none" /\ pc[c] # "writeCommand") =>
         /\ Len(wire[c]) >= 1
         /\ wire[c][1].pkt.type = TYPE_COMMAND

C1_Witness ==
  /\ ncalls = 3
  /\ call[1].no = 3
  /\ call[1].op = "sendWriteCommand"
  /\ Len(wire[1]) = 2
  /\ wire[1][1].ok
  /\ wire[1][1].pkt.type = TYPE_COMMAND
  /\ wire[1][1].pkt.transaction = 2

\* C2 as stated: one sendCommand on a fresh driver, answered by a Response
\* packet, returns the packet's code and leaves the transaction counter at 1.
C2_Original ==
  \A c \in Callers :
    FirstSendCommandAnswered(c) =>
      /\ result[c].code = LastRx(c).code
      /\ HasTransaction
      /\ attrs.transaction = 1

\* C2 amended: a fresh driver has no transaction counter before the first
\* command; one sendCommand answered by a Response packet returns that packet's
\* code and leaves the counter at 0, the id its Command packet carried.
C2_FirstCommandLeavesCounterAtZero ==
  /\ (ncalls = 0 => ~HasTransaction)
  /\ \A c \in Callers :
       FirstSendCommandAnswered(c) =>
         /\ LastRx(c).type = TYPE_RESPONSE
         /\ result[c].code = LastRx(c).code
         /\ HasTransaction
         /\ attrs.transaction = 0
         /\ wire[c][1].pkt.transaction = 0

C2_Witness ==
  /\ FirstSendCommandAnswered(1)
  /\ call[1].code = 4097
  /\ call[1].nargs = 1
  /\ result[1].code = 8193
  /\ LastRx(1).transaction = 0

\* C5: a zero-length read never ends _readPtp: after it the operation is still
\* at the read of the same packet and has raised nothing, however many empty
\* reads came before; the packet that follows the empty reads is parsed and
\* handed to _readData / _readResponse, which fail only on a wrong type.
C5_EmptyReadsAreRetried ==
  \A c \in Callers :
    /\ rd[c].len = 0 =>
         /\ rd[c].last = "empty"
         /\ rd[c].empties >= 1
         /\ pc[c] = "readPtp"
         /\ result[c].status = "none"
    /\ (rd[c].last = "packet" /\ rd[c].empties >= 1) =>
         /\ Len(rx[c]) >= 1
         /\ (rd[c].len = LastRx(c).size => LastRx(c).payload = LastRx(c).size - PtpHeaderSize)
         /\ result[c].err \notin {"transport", "format"}
         /\ (result[c].status = "raised" => LastRx(c).type # ExpectedType(LastRx(c).phase))

C5_Witness ==
  /\ rd[1].last = "packet"
  /\ rd[1].empties >= 2
  /\ rd[1].len = 16
  /\ LastRx(1).size = 16
  /\ LastRx(1).payload = 4
  /\ result[1].status = "returned"

\* C6: a packet of a type other than Data ends the data-phase read of
\* sendReadCommand with a protocol error, a packet of a type other than Response
\* ends the response-phase read of every operation with a protocol error; a
\* returned response code comes from a Response packet and returned data from a
\* Data packet.
C6_TypeValidation ==
  \A c \in Callers :
    /\ \A i \in 1 .. Len(rx[c]) :
         rx[c][i].type # ExpectedType(rx[c][i].phase) =>
           /\ i = Len(rx[c])
           /\ pc[c] = "idle"
           /\ result[c].status = "raised"
           /\ result[c].err = "protocol"
    /\ result[c].status = "returned" =>
         /\ LastRx(c).phase = "response"
         /\ LastRx(c).type = TYPE_RESPONSE
         /\ result[c].code = LastRx(c).code
         /\ result[c].hasData = (call[c].op = "sendReadCommand")
         /\ result[c].hasData =>
              /\ Len(rx[c]) = 2
              /\ rx[c][1].phase = "data"
              /\ rx[c][1].type = TYPE_DATA
              /\ result[c].data = rx[c][1].payload

C6_Witness ==
  /\ call[1].op = "sendReadCommand"
  /\ Len(rx[1]) = 1
  /\ rx[1][1].phase = "data"
  /\ rx[1][1].type = TYPE_RESPONSE
  /\ result[1].status = "raised"
  /\ result[1].err = "protocol"

\* C7: every packet of a PTP operation that completes successfully (the Command
\* packet, the Data packet written or read, the Response packet) carries the
\* transaction id assigned at the start of the operation, and the Data packet
\* written by sendWriteCommand has the operation code of its Command packet.
C7_Original ==
  \A c \in Callers :
    result[c].status = "returned" =>
      /\ \A i \in 1 .. Len(wire[c]) :
           /\ wire[c][i].pkt.transaction = call[c].assigned
           /\ wire[c][i].pkt.code = wire[c][1].pkt.code
      /\ \A i \in 1 .. Len(rx[c]) : rx[c][i].transaction = call[c].assigned

\* ========================================================================
\* Properties of MscDriver (checked under SpecMsc)
\* ========================================================================
Sig(e) == <<e.call, e.ep, e.item>>
DepthLog(d) == SelectSeq(mscLog, LAMBDA e : e.depth = d)
Sigs(log) == [i \in 1 .. Len(log) |-> Sig(log[i])]
IsPrefix(a, b) == Len(a) <= Len(b) /\ \A i \in 1 .. Len(a) : a[i] = b[i]
\* entry i of the log is a CSW that was read and unpacked
CswRead(i) == mscLog[i].item = "CSW" /\ mscLog[i].res = "ok"
\* the data phase of the frame at depth d raised usb.core.USBError
DataStalled(d) ==
  \E i \in 1 .. Len(mscLog) :
    mscLog[i].item = "DATA" /\ mscLog[i].depth = d /\ mscLog[i].res \in UsbErrors
CbwWrites(d) == {i \in 1 .. Len(mscLog) : mscLog[i].item = "CBW" /\ mscLog[i].depth = d}
RequestSenseCBW ==
  [signature |-> "USBC", tag |-> 0, dataTransferLength |-> 18, flags |-> 128, lun |-> 0,
   commandLength |-> 6, command |-> <<3, 0, 0, 0, 18, 0, 0, 0, 0, 0, 0, 0, 0, 0, 0, 0>>]

\* C3: for sendCommand, sendWriteCommand and sendReadCommand alike, a CSW with
\* signature USBS and status 0 is mapped to Ok without any sense lookup (no
\* requestSense call, no CBW beyond the operation's own), and the operation
\* returns Ok unless its data phase stalled; a CSW with a nonzero status and
\* failOnError = false leads to exactly one REQUEST SENSE, issued with
\* failOnError = true.
C3_StatusMapping ==
  \A i \in 1 .. Len(mscLog) :
    (CswRead(i) /\ mscLog[i].depth = 1 /\ mscLog[i].csw.signature = "USBS") =>
      /\ mscLog[i].csw.status = 0 =>
           /\ mscLog[i].outcome = "ok"
           /\ senseCalls = 0
           /\ i = Len(mscLog)
           /\ CbwWrites(1) = {1}
           /\ CbwWrites(2) = {}
           /\ mscPc = "idle"
           /\ ~DataStalled(1) => (mscResult.status = "returned" /\ mscResult.sense = <<0, 0, 0>>)
      /\ (mscLog[i].csw.status # 0 /\ ~mscLog[i].failOnError) =>
           /\ mscLog[i].outcome = "sense"
           /\ senseCalls = 1
           /\ Cardinality(CbwWrites(2)) <= 1
           /\ \A j \in CbwWrites(2) :
                /\ j = i + 1
                /\ mscLog[j].cbw = RequestSenseCBW
                /\ mscLog[j].op = "sendReadCommand"
                /\ mscLog[j].failOnError
           /\ CbwWrites(2) = {} =>
                /\ mscPc = "cbw"
                /\ Len(frames) = 2
                /\ Top.failOnError
                /\ Top.command = <<3, 0, 0, 0, 18, 0>>
           /\ CbwWrites(3) = {}

C3_Witness ==
  /\ Len(mscLog) >= 3
  /\ mscLog[1].op = "sendCommand"
  /\ ~mscLog[1].failOnError
  /\ CswRead(2)
  /\ mscLog[2].csw = [signature |-> "USBS", status |-> 1]
  /\ mscLog[3].cbw = RequestSenseCBW
  /\ mscLog[3].failOnError
  /\ senseCalls = 1
  /\ mscResult.status = "returned"

\* C4: when the data phase of sendWriteCommand or sendReadCommand stalls and
\* the CSW read afterwards has signature USBS and status 0, the call raises the
\* stall error; after a stalled data phase no call returns Ok.
C4_StallNeverOk ==
  /\ \A i \in 1 .. Len(mscLog) :
       (CswRead(i) /\ mscLog[i].csw = [signature |-> "USBS", status |-> 0]
          /\ DataStalled(mscLog[i].depth)) =>
         /\ mscPc = "idle"
         /\ mscResult.status = "raised"
         /\ mscResult.err = "stall"
  /\ DataStalled(1) => ~(mscResult.status = "returned" /\ mscResult.sense = <<0, 0, 0>>)

C4_Witness ==
  /\ Len(mscLog) = 4
  /\ mscLog[1].op = "sendWriteCommand"
  /\ mscLog[2].item = "DATA"
  /\ mscLog[2].res = "stall"
  /\ mscLog[3].call = "clear_halt"
  /\ CswRead(4)
  /\ mscLog[4].csw = [signature |-> "USBS", status |-> 0]
  /\ mscResult.err = "stall"

\* C8: a CSW whose signature is not USBS ends the operation with a protocol
\* error whatever its status byte is: nothing is read or written after it, no
\* REQUEST SENSE is issued for it and no outcome is returned.
C8_WrongSignatureFails ==
  \A i \in 1 .. Len(mscLog) :
    (CswRead(i) /\ mscLog[i].csw.signature # "USBS") =>
      /\ mscLog[i].outcome = "protocol"
      /\ i = Len(mscLog)
      /\ mscPc = "idle"
      /\ mscResult.status = "raised"
      /\ mscResult.err = "protocol"
      /\ senseCalls = mscLog[i].depth - 1

C8_Witness ==
  /\ Len(mscLog) = 2
  /\ CswRead(2)
  /\ mscLog[2].csw = [signature |-> "XXXX", status |-> 1]
  /\ ~mscLog[2].failOnError
  /\ mscResult.err = "protocol"

\* C9: with failOnError = true a CSW of signature USBS and nonzero status ends
\* the operation with a device error at once: the CSW read is the last transport
\* call and no REQUEST SENSE is issued.
C9_FailOnErrorFailsAtOnce ==
  \A i \in 1 .. Len(mscLog) :
    (CswRead(i) /\ mscLog[i].csw.signature = "USBS" /\ mscLog[i].csw.status # 0
       /\ mscLog[i].failOnError) =>
      /\ mscLog[i].outcome = "device"
      /\ i = Len(mscLog)
      /\ mscPc = "idle"
      /\ mscResult.status = "raised"
      /\ mscResult.err = "device"
      /\ senseCalls = mscLog[i].depth - 1

C9_Witness ==
  /\ Len(mscLog) = 3
  /\ mscLog[1].op = "sendReadCommand"
  /\ mscLog[1].failOnError
  /\ CswRead(3)
  /\ mscLog[3].csw = [signature |-> "USBS", status |-> 2]
  /\ mscResult.err = "device"
  /\ senseCalls = 0

\* the transport calls of one operation, in order
ExpectedCalls(o, stalled) ==
  IF o = "sendCommand"
    THEN << <<"write", "out", "CBW">>, <<"read", "in", "CSW">> >>
    ELSE LET ep == IF o = "sendWriteCommand" THEN "out" ELSE "in"
             transfer == IF o = "sendWriteCommand" THEN "write" ELSE "read"
         IN << <<"write", "out", "CBW">>, <<transfer, ep, "DATA">> >>
              \o (IF stalled THEN << <<"clear_halt", ep, "HALT">> >> ELSE << >>)
              \o << <<"read", "in", "CSW">> >>

\* C10: every operation writes one CBW, then performs its data phase (none for
\* sendCommand, one bulk-out write for sendWriteCommand, one bulk-in read for
\* sendReadCommand), then reads one CSW.  With no stall and a CSW of signature
\* USBS and status 0, sendReadCommand makes exactly these three transport calls
\* and returns (Ok, the bytes of the data phase); sendCommand makes exactly one
\* write and one read.
C10_PhaseOrder ==
  /\ \A d \in 1 .. MaxDepth :
       LET D == DepthLog(d)
       IN D # << >> =>
            /\ IsPrefix(Sigs(D), ExpectedCalls(D[1].op, DataStalled(d)))
            /\ D[1].cbw.flags = (IF D[1].op = "sendReadCommand" THEN 128 ELSE 0)
            /\ D[1].op = "sendCommand" => D[1].cbw.dataTransferLength = 0
  /\ mscResult.status = "returned" =>
       Sigs(DepthLog(1)) = ExpectedCalls(mscLog[1].op, DataStalled(1))
  /\ (mscResult.status = "returned" /\ senseCalls = 0 /\ ~DataStalled(1)) =>
       /\ mscResult.sense = <<0, 0, 0>>
       /\ mscLog[Len(mscLog)].csw = [signature |-> "USBS", status |-> 0]
       /\ mscLog[1].op = "sendCommand" =>
            /\ Sigs(mscLog) = << <<"write", "out", "CBW">>, <<"read", "in", "CSW">> >>
            /\ ~mscResult.hasData
       /\ mscLog[1].op = "sendReadCommand" =>
            /\ Sigs(mscLog) = << <<"write", "out", "CBW">>, <<"read", "in", "DATA">>,
                                 <<"read", "in", "CSW">> >>
            /\ mscResult.hasData
            /\ mscResult.data = mscLog[2].buf

C10_Witness ==
  /\ mscResult.status = "returned"
  /\ Len(mscLog) = 3
  /\ mscLog[1].op = "sendReadCommand"
  /\ mscLog[1].cbw = RequestSenseCBW
  /\ mscLog[2].buf.len = 18
  /\ mscLog[2].buf.key = 5
  /\ mscResult.data = mscLog[2].buf
  /\ mscResult.sense = <<0, 0, 0>>

\* ========================================================================
\* Further properties of MtpDriver._readPtp and of the transaction counter
\* (SpecMtp)
\* ========================================================================

\* C11: a packet whose header declares a size S above MAX_PKG_LEN is returned
\* with a payload of exactly S - 12 bytes, however the transport splits it into
\* reads (a first read shorter than 512 bytes, a follow-up read that returns
\* fewer bytes than requested).
C11_Original ==
  \A c \in Callers : \A i \in 1 .. Len(rx[c]) :
    rx[c][i].size > MAX_PKG_LEN => rx[c][i].payload = rx[c][i].size - PtpHeaderSize

\* C13: the transaction counter never decreases and changes only in the step
\* that starts an operation; every operation after the first raises it by
\* exactly 1, also after an operation that failed; writing the Command or Data
\* packet and reading the Data or Response packet leave it unchanged.
C13_CounterChangesOnlyAtStart ==
  [][/\ HasTransaction => (HasTransaction' /\ attrs'.transaction >= attrs.transaction)
     /\ ncalls' = ncalls + 1 =>
          /\ HasTransaction'
          /\ attrs'.transaction = (IF HasTransaction THEN attrs.transaction + 1 ELSE 0)
     /\ ncalls' = ncalls =>
          /\ HasTransaction' = HasTransaction
          /\ HasTransaction => attrs'.transaction = attrs.transaction
     /\ ncalls' \in {ncalls, ncalls + 1}]_vars

C13_Witness ==
  /\ ncalls = 3
  /\ attrs.transaction = 2
  /\ call[1].op = "sendReadCommand"
  /\ Len(rx[1]) = 1
  /\ result[1].status = "raised"
  /\ result[1].err = "protocol"

\* C17: an operation whose Command packet was written does not return or fail
\* before the Response packet of the command has been read (transport faults
\* and undersized reads aside): in particular sendReadCommand reads the Response
\* also when the packet of the data phase is not of type Data.
C17_Original ==
  \A c \in Callers :
    (pc[c] = "idle" /\ Len(wire[c]) >= 1 /\ wire[c][1].ok
       /\ (result[c].status = "returned" \/ result[c].err = "protocol")) =>
      \E i \in 1 .. Len(rx[c]) : rx[c][i].type = TYPE_RESPONSE

\* C20: the payload _readPtp returns for a header declaring size S has at most
\* S - 12 bytes, also when the read returned more than S bytes.
C20_Original ==
  \A c \in Callers : \A i \in 1 .. Len(rx[c]) :
    rx[c][i].payload <= rx[c][i].size - PtpHeaderSize

\* ========================================================================
\* Further properties of MscDriver (SpecMsc)
\* ========================================================================
DataEntries(d) == {i \in 1 .. Len(mscLog) : mscLog[i].item = "DATA" /\ mscLog[i].depth = d}
HaltEntries(d) == {i \in 1 .. Len(mscLog) : mscLog[i].item = "HALT" /\ mscLog[i].depth = d}
CswEntries(d) == {i \in 1 .. Len(mscLog) : mscLog[i].item = "CSW" /\ mscLog[i].depth = d}

\* C12: in the data phase only a stall is recovered: after any other transport
\* fault of the data transfer the operation raises a transport error without
\* clearing a halt and without reading the CSW; a fault while writing the CBW
\* ends the operation with no further transport call.
C12_Original ==
  \A i \in 1 .. Len(mscLog) :
    /\ (mscLog[i].item = "DATA" /\ mscLog[i].res = "timeout") =>
         /\ i = Len(mscLog)
         /\ mscPc = "idle"
         /\ mscResult.status = "raised"
         /\ mscResult.err = "transport"
    /\ (mscLog[i].item = "CBW" /\ mscLog[i].res # "ok") =>
         /\ i = Len(mscLog)
         /\ mscPc = "idle"
         /\ mscResult.status = "raised"
         /\ mscResult.err = "transport"

\* the REQUEST SENSE of the running operation obtained sense data: its data
\* phase read 18 bytes and its CSW reported success
SenseObtained ==
  /\ ~DataStalled(2)
  /\ \E i \in DataEntries(2) : mscLog[i].res = "ok" /\ mscLog[i].buf.len = 18
  /\ \E i \in CswEntries(2) : CswRead(i) /\ mscLog[i].csw = [signature |-> "USBS", status |-> 0]
SenseBuffer == mscLog[CHOOSE i \in DataEntries(2) : TRUE].buf
OwnCswFailed ==
  \E i \in CswEntries(1) :
    /\ CswRead(i)
    /\ mscLog[i].csw.signature = "USBS"
    /\ mscLog[i].csw.status # 0
    /\ ~mscLog[i].failOnError

\* C14: when the data phase stalls and the CSW status is nonzero with
\* failOnError = false, the operation does not raise the stall error but returns
\* the sense data REQUEST SENSE obtained, whatever that sense data is.
C14_Original ==
  (DataStalled(1) /\ OwnCswFailed /\ SenseObtained) =>
    /\ mscPc = "idle"
    /\ mscResult.status = "returned"
    /\ mscResult.sense = <<SenseBuffer.key % 16, SenseBuffer.asc, SenseBuffer.ascq>>

\* C15: when the data transfer of sendWriteCommand raises, the halt is cleared
\* once on bulk-out, for sendReadCommand once on bulk-in; the clear is the
\* transport call right after the failed transfer, the transfer is not repeated,
\* and once the halt is cleared the next transport call is the CSW read.
C15_StallRecoveryOrder ==
  \A d \in 1 .. MaxDepth :
    /\ Cardinality(DataEntries(d)) <= 1
    /\ \A j \in HaltEntries(d) :
         /\ j > 1
         /\ mscLog[j - 1].item = "DATA"
         /\ mscLog[j - 1].depth = d
         /\ mscLog[j - 1].res \in UsbErrors
    /\ \A i \in DataEntries(d) :
         mscLog[i].res \in UsbErrors =>
           /\ Cardinality(HaltEntries(d)) <= 1
           /\ HaltEntries(d) = {} => (i = Len(mscLog) /\ mscPc = "clearHalt")
           /\ \A j \in HaltEntries(d) :
                /\ j = i + 1
                /\ mscLog[j].call = "clear_halt"
                /\ mscLog[j].ep = (IF mscLog[i].op = "sendWriteCommand" THEN "out" ELSE "in")
                /\ mscLog[j].ep = mscLog[i].ep
                /\ mscLog[j].res = "ok" =>
                     IF j = Len(mscLog)
                       THEN mscPc = "status"
                       ELSE /\ mscLog[j + 1].item = "CSW"
                            /\ mscLog[j + 1].call = "read"
                            /\ mscLog[j + 1].depth = d
           /\ \A k \in CswEntries(d) : k = i + 2

C15_Witness ==
  /\ Len(mscLog) = 4
  /\ mscLog[1].op = "sendReadCommand"
  /\ mscLog[2].item = "DATA"
  /\ mscLog[2].res = "stall"
  /\ mscLog[3].call = "clear_halt"
  /\ mscLog[3].ep = "in"
  /\ mscLog[3].res = "ok"
  /\ CswRead(4)

\* C16: the REQUEST SENSE inside an operation is a sendReadCommand with
\* failOnError = true, command 03 00 00 00 12 00 and size 18, so a nonzero CSW
\* status for the REQUEST SENSE raises a device error and no further REQUEST
\* SENSE follows; a top-level operation writes at most two CBWs, reads at most
\* two CSWs, and every step of a running operation is one more of at most eight
\* transport calls, so the operation ends.
C16_SenseNeverRecurses ==
  /\ [](/\ Len(frames) <= 2
        /\ senseCalls <= 1
        /\ Cardinality({i \in 1 .. Len(mscLog) : mscLog[i].item = "CBW"}) <= 2
        /\ Cardinality({i \in 1 .. Len(mscLog) : mscLog[i].item = "CSW"}) <= 2
        /\ Len(mscLog) <= 8
        /\ Len(frames) = 2 =>
             /\ Top.op = "sendReadCommand"
             /\ Top.failOnError
             /\ Top.size = 18
             /\ Top.command = <<3, 0, 0, 0, 18, 0>>
        /\ \A i \in CswEntries(2) :
             (CswRead(i) /\ mscLog[i].csw.signature = "USBS" /\ mscLog[i].csw.status # 0) =>
               /\ i = Len(mscLog)
               /\ mscPc = "idle"
               /\ mscResult.status = "raised"
               /\ mscResult.err = "device")
  /\ [][mscPc \notin {"idle"} => Len(mscLog') = Len(mscLog) + 1]_vars

C16_Witness ==
  /\ senseCalls = 1
  /\ Len(mscLog) = 5
  /\ mscLog[3].cbw = RequestSenseCBW
  /\ CswRead(5)
  /\ mscLog[5].depth = 2
  /\ mscLog[5].csw = [signature |-> "USBS", status |-> 1]
  /\ mscResult.err = "device"

\* C19: an operation returns the Ok outcome only if the CSW of the command the
\* caller issued reported status 0; the sense data returned after a nonzero
\* status is never equal to Ok.
C19_Original ==
  (mscResult.status = "returned" /\ mscResult.sense = MSC_SENSE_OK) =>
    \E i \in CswEntries(1) :
      CswRead(i) /\ mscLog[i].csw = [signature |-> "USBS", status |-> 0]

\* ========================================================================
\* Two callers on one MtpDriver instance (SpecMtpTwo)
\* ========================================================================
\* caller c's running or last operation has written its Command packet
CommandWritten(c) == Len(wire[c]) >= 1 /\ wire[c][1].pkt.type = TYPE_COMMAND /\ wire[c][1].ok

\* C18 as stated: when the steps of two callers' operations interleave, the
\* Command packets of the two callers carry distinct transaction ids and the
\* Data packet of a sendWriteCommand carries the id of its own Command packet.
C18_Original ==
  /\ \A c \in Callers : \A d \in Callers \ {c} :
       (CommandWritten(c) /\ CommandWritten(d)) =>
         wire[c][1].pkt.transaction # wire[d][1].pkt.transaction
  /\ \A c \in Callers : \A i \in 1 .. Len(wire[c]) :
       wire[c][i].pkt.type = TYPE_DATA =>
         wire[c][i].pkt.transaction = wire[c][1].pkt.transaction

\* C18 amended: for operations that no other caller's operation overlaps (the
\* callers are serialized from outside, the driver itself takes no lock), the
\* Command packets of the two callers carry distinct transaction ids, each the
\* id assigned at the start of its operation, and the Data packet of a
\* sendWriteCommand carries the id of its own Command packet.
C18_SerializedCallsKeepTheirId ==
  /\ \A c \in Callers : \A d \in Callers \ {c} :
       (CommandWritten(c) /\ CommandWritten(d)
          /\ ~call[c].overlapped /\ ~call[d].overlapped) =>
         wire[c][1].pkt.transaction # wire[d][1].pkt.transaction
  /\ \A c \in Callers : \A i \in 1 .. Len(wire[c]) :
       ~call[c].overlapped =>
         /\ wire[c][i].pkt.transaction = call[c].assigned
         /\ wire[c][i].pkt.transaction = wire[c][1].pkt.transaction

C18_Witness ==
  /\ call[1].no = 1
  /\ call[2].no = 2
  /\ ~call[1].overlapped
  /\ ~call[2].overlapped
  /\ call[2].op = "sendWriteCommand"
  /\ Len(wire[2]) = 2
  /\ wire[1][1].pkt.transaction = 0
  /\ wire[2][1].pkt.transaction = 1
  /\ wire[2][2].pkt.type = TYPE_DATA
  /\ wire[2][2].pkt.transaction = 1
  /\ result[2].status = "returned"

====
